---- MODULE Spec2Model ----
(***************************************************************************)
(* Model of the grid-area library (src/src/lib.rs): adjacency under a      *)
(* topology, boundary predicates, point enumeration and neighborhoods.     *)
(* Every library function is pure; the state records the grid the caller   *)
(* works with, the last call made on it and the value that call returned.  *)
(*                                                                         *)
(* Option<(usize, usize)> is modelled as a sequence of length 0 (None) or  *)
(* 1 (Some(p)), a coordinate p as the pair <<x, y>>, and an iterator as    *)
(* the sequence of the items it yields.                                    *)
(***************************************************************************)
EXTENDS Integers, Sequences, FiniteSets

VARIABLES t, width, height, fn, args, ret

vars == <<t, width, height, fn, args, ret>>

\* Largest width and height of the grids explored.
MaxDim == 5

Topology == {"Bounded", "Torus"}

Direction == {"North", "South", "East", "West"}

Neighborhood == {"Orthogonal", "Diagonal", "Square"}

None == <<>>

Some(p) == <<p>>

\* usize::checked_sub(1)
checked_sub1(v) == IF v >= 1 THEN Some(v - 1) ELSE None

\* Option::unwrap_or
unwrap_or(o, dflt) == IF o = None THEN dflt ELSE o[1]


\* bounded_adjacent with the South bound test written <= instead of <.
bounded_adjacent_southInclusive(w, h, x, y, d) ==
    CASE d = "North" -> IF y >= 1 THEN Some(<<x, y - 1>>) ELSE None
      [] d = "South" -> IF y + 1 <= h THEN Some(<<x, y + 1>>) ELSE None
      [] d = "East"  -> IF x + 1 < w THEN Some(<<x + 1, y>>) ELSE None
      [] d = "West"  -> IF x >= 1 THEN Some(<<x - 1, y>>) ELSE None

bounded_adjacent(w, h, x, y, d) ==
    CASE d = "North" -> IF checked_sub1(y) = None THEN None
                        ELSE Some(<<x, checked_sub1(y)[1]>>)
      [] d = "South" -> IF y + 1 < h THEN Some(<<x, y + 1>>) ELSE None
      [] d = "East"  -> IF x + 1 < w THEN Some(<<x + 1, y>>) ELSE None
      [] d = "West"  -> IF checked_sub1(x) = None THEN None
                        ELSE Some(<<checked_sub1(x)[1], y>>)

\* torus_adjacent with North wrapping to height instead of height - 1.
torus_adjacent_northWrapsToHeight(w, h, x, y, d) ==
    CASE d = "North" -> Some(<<x, unwrap_or(checked_sub1(y), h)>>)
      [] d = "South" -> Some(<<x, (y + 1) % w>>)
      [] d = "East"  -> Some(<<(x + 1) % w, y>>)
      [] d = "West"  -> Some(<<unwrap_or(checked_sub1(x), w - 1), y>>)

\* torus_adjacent with East reduced modulo height instead of width.
torus_adjacent_eastModHeight(w, h, x, y, d) ==
    CASE d = "North" -> Some(<<x, unwrap_or(checked_sub1(y), h - 1)>>)
      [] d = "South" -> Some(<<x, (y + 1) % w>>)
      [] d = "East"  -> Some(<<(x + 1) % h, y>>)
      [] d = "West"  -> Some(<<unwrap_or(checked_sub1(x), w - 1), y>>)

torus_adjacent(w, h, x, y, d) ==
    CASE d = "North" -> Some(<<x, unwrap_or(checked_sub1(y), h - 1)>>)
      [] d = "South" -> Some(<<x, (y + 1) % w>>)
      [] d = "East"  -> Some(<<(x + 1) % w, y>>)
      [] d = "West"  -> Some(<<unwrap_or(checked_sub1(x), w - 1), y>>)

adjacent_cell(tp, w, h, x, y, d) ==
    CASE tp = "Bounded" -> bounded_adjacent(w, h, x, y, d)
      [] tp = "Torus"   -> torus_adjacent(w, h, x, y, d)

\* Option::and_then applied to the closure |(x, y)| adjacent_cell(.., x, y, d)
and_then_adjacent(o, tp, w, h, d) ==
    IF o = None THEN None ELSE adjacent_cell(tp, w, h, o[1][1], o[1][2], d)

\* is_edge comparing against width and height instead of the last index.
is_edge_pastTheEnd(tp, w, h, x, y) ==
    tp = "Bounded" /\ (x = 0 \/ x = w \/ y = 0 \/ y = h)

is_edge(tp, w, h, x, y) ==
    tp = "Bounded" /\ (x = 0 \/ x + 1 = w \/ y = 0 \/ y + 1 = h)

\* is_corner joining the two axes with "or" instead of "and".
is_corner_eitherAxis(tp, w, h, x, y) ==
    tp = "Bounded" /\ ((x = 0 \/ x + 1 = w) \/ (y = 0 \/ y + 1 = h))

\* is_corner recognising only the two corners of the main diagonal.
is_corner_mainDiagonal(tp, w, h, x, y) ==
    tp = "Bounded" /\ ((x = 0 /\ y = 0) \/ (x + 1 = w /\ y + 1 = h))

is_corner(tp, w, h, x, y) ==
    tp = "Bounded" /\ (x = 0 \/ x + 1 = w) /\ (y = 0 \/ y + 1 = h)

\* The range 0..n as the sequence of the values it yields.
Range(n) == [i \in 1..n |-> i - 1]

\* Iterator::flatten over a sequence of sequences (or of Options)
RECURSIVE flatten(_)
flatten(ss) == IF ss = <<>> THEN <<>> ELSE Head(ss) \o flatten(Tail(ss))

\* points with the loops exchanged: y outermost, x innermost.
points_yMajor(w, h) ==
    LET col(y) == [i \in 1..w |-> <<Range(w)[i], y>>]
    IN  flatten([j \in 1..h |-> col(Range(h)[j])])

points(w, h) ==
    LET row(x) == [i \in 1..h |-> <<x, Range(h)[i]>>]
    IN  flatten([j \in 1..w |-> row(Range(w)[j])])

orthogonal_vec(tp, w, h, x, y) ==
    << adjacent_cell(tp, w, h, x, y, "North"),
       adjacent_cell(tp, w, h, x, y, "South"),
       adjacent_cell(tp, w, h, x, y, "East"),
       adjacent_cell(tp, w, h, x, y, "West") >>

diagonal_vec(tp, w, h, x, y) ==
    LET n == adjacent_cell(tp, w, h, x, y, "North")
        s == adjacent_cell(tp, w, h, x, y, "South")
        east(o) == and_then_adjacent(o, tp, w, h, "East")
        west(o) == and_then_adjacent(o, tp, w, h, "West")
    IN  << east(n), east(s),
           west(n), west(s) >>

\* square_vec with the diagonal chains listed North-East, North-West,
\* South-East, South-West.
square_vec_chainsByRow(tp, w, h, x, y) ==
    LET n == adjacent_cell(tp, w, h, x, y, "North")
        s == adjacent_cell(tp, w, h, x, y, "South")
        east(o) == and_then_adjacent(o, tp, w, h, "East")
        west(o) == and_then_adjacent(o, tp, w, h, "West")
    IN  << adjacent_cell(tp, w, h, x, y, "North"),
           adjacent_cell(tp, w, h, x, y, "South"),
           adjacent_cell(tp, w, h, x, y, "East"),
           adjacent_cell(tp, w, h, x, y, "West"),
           east(n), west(n),
           east(s), west(s) >>

square_vec(tp, w, h, x, y) ==
    LET n == adjacent_cell(tp, w, h, x, y, "North")
        s == adjacent_cell(tp, w, h, x, y, "South")
        east(o) == and_then_adjacent(o, tp, w, h, "East")
        west(o) == and_then_adjacent(o, tp, w, h, "West")
    IN  << adjacent_cell(tp, w, h, x, y, "North"),
           adjacent_cell(tp, w, h, x, y, "South"),
           adjacent_cell(tp, w, h, x, y, "East"),
           adjacent_cell(tp, w, h, x, y, "West"),
           east(n), east(s),
           west(n), west(s) >>

neighborhood(tp, w, h, x, y, n) ==
    flatten(CASE n = "Orthogonal" -> orthogonal_vec(tp, w, h, x, y)
              [] n = "Diagonal"   -> diagonal_vec(tp, w, h, x, y)
              [] n = "Square"     -> square_vec(tp, w, h, x, y))

----------------------------------------------------------------------------
\* The caller's grid: any topology, any extent up to MaxDim; no call made yet.
Init ==
    /\ t \in Topology
    /\ width \in 0..MaxDim
    /\ height \in 0..MaxDim
    /\ fn = "none"
    /\ args = <<>>
    /\ ret = <<>>

\* The coordinates a caller may pass: 0 <= x < width, 0 <= y < height.
InBoundsX == 0..(width - 1)

InBoundsY == 0..(height - 1)

CallAdjacentCell ==
    \E x \in InBoundsX, y \in InBoundsY, d \in Direction :
        /\ fn' = "adjacent_cell"
        /\ args' = <<x, y, d>>
        /\ ret' = adjacent_cell(t, width, height, x, y, d)
        /\ UNCHANGED <<t, width, height>>

CallIsEdge ==
    \E x \in InBoundsX, y \in InBoundsY :
        /\ fn' = "is_edge"
        /\ args' = <<x, y>>
        /\ ret' = is_edge(t, width, height, x, y)
        /\ UNCHANGED <<t, width, height>>

CallIsCorner ==
    \E x \in InBoundsX, y \in InBoundsY :
        /\ fn' = "is_corner"
        /\ args' = <<x, y>>
        /\ ret' = is_corner(t, width, height, x, y)
        /\ UNCHANGED <<t, width, height>>

CallPoints ==
    /\ fn' = "points"
    /\ args' = <<>>
    /\ ret' = points(width, height)
    /\ UNCHANGED <<t, width, height>>

CallNeighborhood ==
    \E x \in InBoundsX, y \in InBoundsY, n \in Neighborhood :
        /\ fn' = "neighborhood"
        /\ args' = <<x, y, n>>
        /\ ret' = neighborhood(t, width, height, x, y, n)
        /\ UNCHANGED <<t, width, height>>

Next ==
    \/ CallAdjacentCell
    \/ CallIsEdge
    \/ CallIsCorner
    \/ CallPoints
    \/ CallNeighborhood

Spec == Init /\ [][Next]_vars

----------------------------------------------------------------------------
\* Shorthands for the properties below.
InBounds(p) == p[1] \in 0..(width - 1) /\ p[2] \in 0..(height - 1)

Called(f) == fn = f

Opposite(d) ==
    CASE d = "North" -> "South"
      [] d = "South" -> "North"
      [] d = "East"  -> "West"
      [] d = "West"  -> "East"

\* Moving from <<x, y>> in direction d and back in the opposite direction
\* returns <<x, y>>.
RoundTrip(x, y, d) ==
    LET there == adjacent_cell(t, width, height, x, y, d)
    IN  /\ there # None
        /\ adjacent_cell(t, width, height, there[1][1], there[1][2], Opposite(d))
             = Some(<<x, y>>)

AllRoundTrips ==
    \A x \in InBoundsX, y \in InBoundsY, d \in Direction : RoundTrip(x, y, d)

\* The present results among a sequence of optional coordinates, in order.
RECURSIVE Present(_)
Present(os) ==
    IF os = <<>> THEN <<>>
    ELSE (IF Head(os) = None THEN <<>> ELSE <<Head(os)[1]>>) \o Present(Tail(os))

\* The two-step move d1 then d2 from <<x, y>>, absent when either leg is.
Chain(x, y, d1, d2) ==
    LET a == adjacent_cell(t, width, height, x, y, d1)
    IN  IF a = None THEN None
        ELSE adjacent_cell(t, width, height, a[1][1], a[1][2], d2)

\* C1: under Torus, the coordinate adjacent_cell returns for an in-bounds
\* point is in bounds, in every direction.
C1_TorusResultInBounds ==
    (Called("adjacent_cell") /\ t = "Torus") =>
        (ret # None /\ InBounds(ret[1]))

\* C2: under Bounded, adjacent_cell is absent for West at x = 0, North at
\* y = 0, East at x = width-1 and South at y = height-1; otherwise it is the
\* in-bounds coordinate one step away on the moved axis, the other unchanged.
C2_BoundedAdjacent ==
    (Called("adjacent_cell") /\ t = "Bounded") =>
        LET x == args[1]
            y == args[2]
            d == args[3]
            blocked == \/ d = "West"  /\ x = 0
                       \/ d = "North" /\ y = 0
                       \/ d = "East"  /\ x = width - 1
                       \/ d = "South" /\ y = height - 1
            moved == CASE d = "North" -> <<x, y - 1>>
                       [] d = "South" -> <<x, y + 1>>
                       [] d = "East"  -> <<x + 1, y>>
                       [] d = "West"  -> <<x - 1, y>>
        IN  IF blocked THEN ret = None
            ELSE ret = Some(moved) /\ InBounds(ret[1])

C2_Witness ==
    /\ Called("adjacent_cell") /\ t = "Bounded"
    /\ args = <<width - 1, 0, "South">>
    /\ height >= 2 /\ ret = Some(<<width - 1, 1>>)

C4_NeighborhoodOmitsPoint ==
    Called("neighborhood") =>
        \A i \in 1..Len(ret) : ret[i] # <<args[1], args[2]>>

C6_Points ==
    Called("points") =>
        /\ Len(ret) = width * height
        /\ \A i, j \in 1..Len(ret) : i # j => ret[i] # ret[j]
        /\ {ret[i] : i \in 1..Len(ret)} = InBoundsX \X InBoundsY
        /\ \A x \in InBoundsX, y \in InBoundsY : ret[x * height + y + 1] = <<x, y>>
        /\ (width = 0 \/ height = 0) => ret = <<>>

C6_Witness ==
    /\ Called("points") /\ width = 2 /\ height = 3
    /\ ret = << <<0, 0>>, <<0, 1>>, <<0, 2>>, <<1, 0>>, <<1, 1>>, <<1, 2>> >>

\* C7: is_edge is true iff the topology is Bounded and the point is at index
\* 0 or the last index of either axis; is_corner is true iff the topology is
\* Bounded and the point is at index 0 or the last index of both axes; both
\* are false under Torus.
C7_EdgeCorner ==
    LET x == args[1]
        y == args[2]
    IN  /\ Called("is_edge") =>
              /\ ret = (t = "Bounded" /\ (x = 0 \/ x = width - 1 \/ y = 0 \/ y = height - 1))
              /\ t = "Torus" => ret = FALSE
        /\ Called("is_corner") =>
              /\ ret = (t = "Bounded" /\ (x = 0 \/ x = width - 1) /\ (y = 0 \/ y = height - 1))
              /\ t = "Torus" => ret = FALSE

C7_Witness ==
    /\ Called("is_edge") /\ t = "Bounded"
    /\ width = 3 /\ height = 3 /\ args = <<1, 1>> /\ ret = FALSE

\* C8 as stated: under Bounded, in a grid of width 1 or height 1 every
\* in-bounds cell satisfies both is_edge and is_corner.
C8_DegenerateAllEdgeAndCorner ==
    (t = "Bounded" /\ (width = 1 \/ height = 1)) =>
        /\ Called("is_edge") => ret = TRUE
        /\ Called("is_corner") => ret = TRUE

\* C8 amended: under Bounded, in a grid of width 1 or height 1 every in-bounds
\* cell satisfies is_edge, and satisfies is_corner exactly when it is at index
\* 0 or the last index of the other axis.
C8_DegenerateEdgeCorner ==
    (t = "Bounded" /\ (width = 1 \/ height = 1)) =>
        /\ Called("is_edge") => ret = TRUE
        /\ Called("is_corner") =>
              ret = (IF width = 1 THEN args[2] \in {0, height - 1}
                     ELSE args[1] \in {0, width - 1})

C8_Witness ==
    /\ Called("is_corner") /\ t = "Bounded"
    /\ width = 1 /\ height = 3 /\ args = <<0, 1>> /\ ret = FALSE

\* C9: neighborhood(Square) is neighborhood(Orthogonal) followed by
\* neighborhood(Diagonal); Orthogonal is the present results of North, South,
\* East, West in that order; Diagonal is the present results of the chains
\* North-East, South-East, North-West, South-West in that order.
C9_SquareIsOrthogonalThenDiagonal ==
    Called("neighborhood") =>
        LET x == args[1]
            y == args[2]
            n == args[3]
            orth == Present(<< adjacent_cell(t, width, height, x, y, "North"),
                               adjacent_cell(t, width, height, x, y, "South"),
                               adjacent_cell(t, width, height, x, y, "East"),
                               adjacent_cell(t, width, height, x, y, "West") >>)
            diag == Present(<< Chain(x, y, "North", "East"),
                               Chain(x, y, "South", "East"),
                               Chain(x, y, "North", "West"),
                               Chain(x, y, "South", "West") >>)
        IN  /\ n = "Orthogonal" => ret = orth
            /\ n = "Diagonal" => ret = diag
            /\ n = "Square" =>
                  /\ ret = neighborhood(t, width, height, x, y, "Orthogonal")
                             \o neighborhood(t, width, height, x, y, "Diagonal")
                  /\ ret = orth \o diag
            /\ (t = "Bounded" /\ width = 5 /\ height = 5 /\ args = <<0, 0, "Square">>)
                  => ret = << <<0, 1>>, <<1, 0>>, <<1, 1>> >>
            /\ (t = "Torus" /\ width = 5 /\ height = 5 /\ args = <<0, 0, "Square">>)
                  => ret = << <<0, 4>>, <<0, 1>>, <<1, 0>>, <<4, 0>>,
                              <<1, 4>>, <<1, 1>>, <<4, 4>>, <<4, 1>> >>

C9_Witness ==
    /\ Called("neighborhood") /\ t = "Torus"
    /\ width = 5 /\ height = 5 /\ args = <<0, 0, "Square">>
    /\ Len(ret) = 8 /\ ret[5] = <<1, 4>> /\ ret[6] = <<1, 1>>

\* C10: is_edge is true iff adjacent_cell is absent in at least one of the
\* four directions; is_corner is true iff adjacent_cell is absent in at least
\* one of North/South and in at least one of East/West.
C10_PredicatesAgreeWithAdjacency ==
    LET absent(d) == adjacent_cell(t, width, height, args[1], args[2], d) = None
    IN  /\ Called("is_edge") => ret = (\E d \in Direction : absent(d))
        /\ Called("is_corner") =>
              ret = ((absent("North") \/ absent("South"))
                       /\ (absent("East") \/ absent("West")))

C10_Witness ==
    /\ Called("is_corner") /\ t = "Bounded"
    /\ width = 3 /\ height = 3 /\ args = <<2, 0>> /\ ret = TRUE
    /\ adjacent_cell(t, width, height, 2, 0, "North") = None
    /\ adjacent_cell(t, width, height, 2, 0, "East") = None

====
